---- MODULE Spec2Model ----
(***************************************************************************)
(* Model of source/helper.cpp of dbfs: the helpers that build the on-disk  *)
(* dump tree of a server (CreateDbfsFiles, CreateCustomQueriesDir,         *)
(* CreateDMVFiles, CreateFile), tag and query the provenance attribute     *)
(* (CreateFile, IsDbfsFile), look a server up (GetServerDetails) and       *)
(* escalate (KillSelf).                                                    *)
(*                                                                         *)
(* A path is a sequence of tokens, each token standing for a run of        *)
(* characters of the C string ("/" is the delimiter), so that string       *)
(* concatenation is \o and the kernel's path resolution is Norm.           *)
(***************************************************************************)
EXTENDS Integers, Sequences, FiniteSets, TLC

\* ------------------------------------------------------------- bounds
\* Longest catalog result (rows after Split, the header row included).
MaxRows == 3
\* Most custom queries configured for the server.
MaxCustomQueries == 1
\* Most operations the startup code invokes in one run.
MaxCalls == 1

\* --------------------------------------------------------- constants
\* The version from which the .json sibling is created.
JsonVersion == 16

LINUX_PATH_DELIM == <<"/">>
CUSTOM_QUERY_FOLDER_NAME == <<"customQueries">>
JsonSuffix == <<".json">>

\* g_UserPaths.m_dumpPath: the dump directory, as configured.
dumpPath == <<"/", "d", "/">>

\* The keys of g_ServerInfoMap, and a name that is not one.
KnownServers == {<<"srv">>}
UnknownServer == <<"nosrv">>

\* The catalog query's rows: the column label first, then the DMV names.
ColumnName == <<"ColumnName">>
DataNames == {<<"a">>, <<"b">>}
Versions == {JsonVersion - 1, JsonVersion}

\* Names of the custom queries a server may be configured with.
QueryNames == <<<<"q1">>, <<"q2">>, <<"q3">>>>

\* A file of the dump directory that another program wrote.
ExternalFile == <<"/", "d", "/", "ext">>

\* ------------------------------------------------------------- paths
\* CalculateDumpPath: the dump directory path followed by the given path.
CalculateDumpPath(path) == dumpPath \o path

\* StringFormat("%s/%s", a, b) and StringFormat("%s.json", a).
FormatSlash(a, b) == a \o <<"/">> \o b
FormatJson(a) == a \o JsonSuffix

RECURSIVE Collapse(_)
Collapse(p) ==
    IF Len(p) <= 1 THEN p
    ELSE IF p[1] = "/" /\ p[2] = "/" THEN Collapse(Tail(p))
    ELSE <<p[1]>> \o Collapse(Tail(p))

\* The kernel's resolution of a path: repeated and trailing delimiters drop.
Norm(p) ==
    LET c == Collapse(p)
    IN  IF Len(c) > 1 /\ c[Len(c)] = "/" THEN SubSeq(c, 1, Len(c) - 1) ELSE c

RECURSIVE LastSlash(_, _)
LastSlash(p, k) == IF k = 0 THEN 0 ELSE IF p[k] = "/" THEN k ELSE LastSlash(p, k - 1)

\* The directory holding a resolved path.
Parent(p) ==
    LET k == LastSlash(p, Len(p))
    IN  IF k <= 1 THEN <<"/">> ELSE SubSeq(p, 1, k - 1)

VARIABLES
    pc,          \* position of the process
    sighup,      \* disposition of SIGHUP: "default" or "handler"
    ndebug,      \* TRUE when the build compiles assert() out
    nCustom,     \* number of custom queries configured for the server
    dirs,        \* resolved paths of the directories that exist
    fs,          \* resolved path of each regular file -> its length
    xattrs,      \* resolved paths carrying g_LocallyGeneratedFiles
    calls,       \* operations invoked so far
    op,          \* the operation in progress
    version,     \* CreateDbfsFiles: version
    fpath,       \* CreateDbfsFiles: fpath, then dumpDir of the callees
    filenames,   \* CreateDMVFiles: filenames
    i,           \* CreateDMVFiles: i
    filepath,    \* CreateDMVFiles: filepath
    cqi,         \* custom query output files created so far
    cfPath,      \* CreateFile: path
    cfRet,       \* where CreateFile returns to
    hostname,    \* GetServerDetails: hostname (out)
    killed,      \* KillSelf was called in the operation in progress
    log,         \* messages PrintMsg got in the operation in progress
    queries,     \* ExecuteQuery calls in the operation in progress
    attempted,   \* <<row index, path>> given to CreateFile by CreateDMVFiles
    created,     \* paths fopen created or truncated, since the start
    opened,      \* paths fopen created or truncated in this operation
    made,        \* directories mkdir created in this operation
    fsAtEntry,   \* fs and xattrs when the CreateFile in progress was entered
    cfOpen,      \* result of the fopen of the CreateFile in progress
    cfTag        \* result of its setxattr

vars == <<pc, sighup, ndebug, nCustom, dirs, fs, xattrs, calls, op, version,
          fpath, filenames, i, filepath, cqi, cfPath, cfRet, hostname, killed,
          log, queries, attempted, created, opened, made, fsAtEntry, cfOpen,
          cfTag>>

fsVars == <<dirs, fs, xattrs>>
cfgVars == <<sighup, ndebug, nCustom>>
cfVars == <<cfPath, cfRet, fsAtEntry, cfOpen, cfTag>>

Exists(p) == Norm(p) \in dirs \/ Norm(p) \in DOMAIN fs

\* mkdir(2) can succeed: nothing is at the path and its directory exists.
MkdirPossible(p) == ~Exists(p) /\ Parent(Norm(p)) \in dirs

\* fopen(path, "w+") can succeed: the path is no directory, its directory exists.
FopenPossible(p) == Norm(p) \notin dirs /\ Parent(Norm(p)) \in dirs

\* setxattr(2) can succeed: something is at the path.
SetxattrPossible(p) == Exists(p)

Init ==
    /\ pc = "idle"
    /\ sighup \in {"default", "handler"}
    /\ ndebug \in BOOLEAN
    /\ nCustom \in 0..MaxCustomQueries
    /\ \E pre \in SUBSET {Norm(CalculateDumpPath(s)) : s \in KnownServers} :
          dirs = {<<"/">>, Norm(dumpPath)} \cup pre
    /\ fs = (ExternalFile :> 1)
    /\ xattrs = {}
    /\ calls = 0
    /\ op = "none"
    /\ version = 0
    /\ fpath = <<>>
    /\ filenames = <<>>
    /\ i = 0
    /\ filepath = <<>>
    /\ cqi = 0
    /\ cfPath = <<>>
    /\ cfRet = "idle"
    /\ hostname = "unset"
    /\ killed = FALSE
    /\ log = {}
    /\ queries = 0
    /\ attempted = {}
    /\ created = {}
    /\ opened = {}
    /\ made = {}
    /\ fsAtEntry = <<fs, xattrs>>
    /\ cfOpen = "none"
    /\ cfTag = "none"

\* The startup code invokes an operation: the bookkeeping of the operation
\* before it is dropped.
Begin(name, msgs) ==
    /\ pc = "idle"
    /\ calls < MaxCalls
    /\ calls' = calls + 1
    /\ op' = name
    /\ killed' = FALSE
    /\ log' = msgs
    /\ queries' = 0
    /\ attempted' = {}
    /\ opened' = {}

\* The locals of CreateDbfsFiles and its callees, and of CreateFile, before
\* the operation that owns them runs.
ResetDMV ==
    /\ version' = 0
    /\ fpath' = <<>>
    /\ filenames' = <<>>
    /\ i' = 0
    /\ filepath' = <<>>
    /\ cqi' = 0

ResetCF ==
    /\ cfPath' = <<>>
    /\ cfRet' = "idle"
    /\ fsAtEntry' = <<fs, xattrs>>
    /\ cfOpen' = "none"
    /\ cfTag' = "none"

\* ---------------------------------------------------------- KillSelf
\* Where control goes when KillSelf returns to its caller.
AfterKill(at) ==
    CASE at = "gsd_kill" -> "idle"
      [] at = "cf_kill_open" -> "cf_setxattr"
      [] at = "cf_kill_tag" -> cfRet
      [] at = "cdf_kill" -> "idle"

KillPoints == {"gsd_kill", "cf_kill_open", "cf_kill_tag", "cdf_kill"}

\* kill(getpid(), SIGHUP): under the default disposition the process ends
\* inside kill; with a handler installed (the graceful shutdown that runs
\* DestroySQLFs) the handler runs and kill returns to KillSelf's caller.
KillOutcome(at) == IF sighup = "default" THEN "terminated" ELSE AfterKill(at)

KillSelf ==
    /\ pc \in KillPoints
    /\ killed' = TRUE
    /\ pc' = KillOutcome(pc)
    /\ UNCHANGED <<fsVars, cfgVars, cfVars, version, fpath, filenames, i, filepath,
                   cqi, calls, op, hostname, log, queries, attempted, created,
                   opened, made>>

\* -------------------------------------------------- GetServerDetails
\* The lookup in g_ServerInfoMap: the out parameter is set when the name is
\* found; otherwise the condition is reported and KillSelf called.
GetServerDetails ==
    \E servername \in KnownServers \cup {UnknownServer} :
        /\ IF servername \in KnownServers
           THEN /\ Begin("GetServerDetails", {})
                /\ hostname' = "m_hostname"
                /\ pc' = "idle"
           ELSE /\ Begin("GetServerDetails", {"Unknown server"})
                /\ hostname' = "unset"
                /\ pc' = "gsd_kill"
        /\ made' = {}
        /\ ResetDMV
        /\ ResetCF
        /\ UNCHANGED <<fsVars, cfgVars, created>>

\* -------------------------------------------------------- CreateFile
\* Entering CreateFile(path), to return to ret.
EnterCreateFile(path, ret) ==
    /\ cfPath' = path
    /\ cfRet' = ret
    /\ fsAtEntry' = <<fs, xattrs>>
    /\ cfOpen' = "none"
    /\ cfTag' = "none"
    /\ pc' = "cf_fopen"

\* Truncated gone wrong: the file is opened without truncation.
Truncated_KeepsContent(path) == [p \in DOMAIN fs \cup {Norm(path)} |->
                                    IF p \in DOMAIN fs THEN fs[p] ELSE 0]

\* The files after fopen(path, "w+") succeeded: the file exists and is empty
\* (an attribute it carried stays).
Truncated(path) == [p \in DOMAIN fs \cup {Norm(path)} |->
                       IF p = Norm(path) THEN 0 ELSE fs[p]]

\* AfterFopen gone wrong: a failed fopen is reported and nothing more.
AfterFopen_OnlyLogs(ok) == "cf_setxattr"

\* if (!fp) ... KillSelf(); else fclose(fp): where fopen's result leads.
AfterFopen(ok) == IF ok THEN "cf_setxattr" ELSE "cf_kill_open"

\* fp = fopen(path, "w+"); a failure is reported and KillSelf called, a
\* success is followed by fclose.
CF_fopen ==
    /\ pc = "cf_fopen"
    /\ \E ok \in {b \in BOOLEAN : b => FopenPossible(cfPath)} :
          IF ok
          THEN /\ fs' = Truncated(cfPath)
               /\ created' = created \cup {Norm(cfPath)}
               /\ opened' = opened \cup {Norm(cfPath)}
               /\ cfOpen' = "ok"
               /\ pc' = AfterFopen(TRUE)
               /\ UNCHANGED log
          ELSE /\ log' = log \cup {"Error creating file"}
               /\ cfOpen' = "failed"
               /\ pc' = AfterFopen(FALSE)
               /\ UNCHANGED <<fs, created, opened>>
    /\ UNCHANGED <<dirs, xattrs, cfgVars, cfPath, cfRet, fsAtEntry, cfTag, version,
                   fpath, filenames, i, filepath, cqi, calls, op, hostname, killed,
                   queries, attempted, made>>

\* The attributes after setxattr(path, g_LocallyGeneratedFiles, "1", 0, 0)
\* succeeded: the attribute is created, or replaced, with an empty value.
Tagged(path) == xattrs \cup {Norm(path)}

\* setxattr; a failure is reported and KillSelf called. CreateFile then returns.
CF_setxattr ==
    /\ pc = "cf_setxattr"
    /\ \E ok \in {b \in BOOLEAN : b => SetxattrPossible(cfPath)} :
          IF ok
          THEN /\ xattrs' = Tagged(cfPath)
               /\ cfTag' = "ok"
               /\ pc' = cfRet
               /\ UNCHANGED log
          ELSE /\ log' = log \cup {"Error setting extended attributes"}
               /\ cfTag' = "failed"
               /\ pc' = "cf_kill_tag"
               /\ UNCHANGED xattrs
    /\ UNCHANGED <<dirs, fs, cfgVars, cfPath, cfRet, fsAtEntry, cfOpen, version,
                   fpath, filenames, i, filepath, cqi, calls, op, hostname, killed,
                   queries, attempted, created, opened, made>>

\* Paths the startup code gives CreateFile directly.
DirectPaths == {ExternalFile, CalculateDumpPath(<<"new">>)}

CreateFile ==
    \E path \in DirectPaths :
        /\ Begin("CreateFile", {})
        /\ EnterCreateFile(path, "idle")
        /\ made' = {}
        /\ hostname' = "unset"
        /\ ResetDMV
        /\ UNCHANGED <<fsVars, cfgVars, created>>

\* -------------------------------------------------------- IsDbfsFile
\* getxattr(fpath, g_LocallyGeneratedFiles, NULL, 0): the length of the
\* attribute's value, which CreateFile set with size 0, or -1.
getxattr(p, fails) == IF fails \/ Norm(p) \notin xattrs THEN -1 ELSE 0

\* result = (length >= 0), for the attribute at CalculateDumpPath(path).
IsDbfsFile(path, fails) ==
    LET length == getxattr(CalculateDumpPath(path), fails)
    IN  length >= 0

\* ------------------------------------------- CreateCustomQueriesDir
\* AfterCustomMkdir gone wrong: the output files are created whatever mkdir said.
AfterCustomMkdir_IgnoresError(ok) == "cq_files"

\* if (error == 0) CreateCustomQueriesOutputFiles(...) else PrintMsg(...).
AfterCustomMkdir(ok) == IF ok THEN "cq_files" ELSE "dmv_query"

\* mkdir of <dumpDir>/<CUSTOM_QUERY_FOLDER_NAME>; on success the output files
\* are created, a failure is reported. CreateDMVFiles is next either way.
CreateCustomQueriesDir ==
    /\ pc = "cq_mkdir"
    /\ LET customQueryFolderPath == fpath \o LINUX_PATH_DELIM \o CUSTOM_QUERY_FOLDER_NAME
       IN  \E ok \in {b \in BOOLEAN : b => MkdirPossible(customQueryFolderPath)} :
              IF ok
              THEN /\ dirs' = dirs \cup {Norm(customQueryFolderPath)}
                   /\ made' = made \cup {Norm(customQueryFolderPath)}
                   /\ pc' = AfterCustomMkdir(TRUE)
                   /\ UNCHANGED log
              ELSE /\ log' = log \cup {"mkdir failed for customQueryFolderPath"}
                   /\ pc' = AfterCustomMkdir(FALSE)
                   /\ UNCHANGED <<dirs, made>>
    /\ cqi' = 0
    /\ UNCHANGED <<fs, xattrs, cfgVars, cfVars, version, fpath, filenames, i,
                   filepath, calls, op, hostname, killed, queries, attempted,
                   created, opened>>

\* One output file per custom query configured for the server, each made by
\* CreateFile in the custom query folder.
CreateCustomQueriesOutputFiles ==
    /\ pc = "cq_files"
    /\ IF cqi < nCustom
       THEN /\ EnterCreateFile(
                   FormatSlash(fpath \o LINUX_PATH_DELIM \o CUSTOM_QUERY_FOLDER_NAME,
                               QueryNames[cqi + 1]),
                   "cq_files")
            /\ cqi' = cqi + 1
       ELSE /\ pc' = "dmv_query"
            /\ UNCHANGED <<cqi, cfVars>>
    /\ UNCHANGED <<fsVars, cfgVars, version, fpath, filenames, i, filepath, calls,
                   op, hostname, killed, log, queries, attempted, created, opened,
                   made>>

\* ----------------------------------------------------- CreateDMVFiles
\* What Split(responseString, '\n') may hold.
Rows == {<<>>} \cup {<<ColumnName>> \o r :
                        r \in UNION {[1..n -> DataNames] : n \in 0..(MaxRows - 1)}}

\* assert(numEntries > 1): the process aborts unless the build leaves asserts out.
AssertEntries(numEntries) == IF numEntries > 1 \/ ndebug THEN "dmv_loop" ELSE "aborted"

\* AfterQuery gone wrong: a failed query is issued again.
AfterQuery_Retries(error, numEntries) ==
    IF error THEN "dmv_query" ELSE AssertEntries(numEntries)

\* if (error) PrintMsg(...) and return; else the assert, then the loop.
AfterQuery(error, numEntries) == IF error THEN "idle" ELSE AssertEntries(numEntries)

\* ExecuteQuery, and on success Split, the assert and the start of the loop.
CreateDMVFiles ==
    /\ pc = "dmv_query"
    /\ queries' = queries + 1
    /\ \E error \in BOOLEAN, rows \in Rows :
          IF error
          THEN /\ rows = <<>>
               /\ log' = log \cup {"Failed to query DMV list"}
               /\ pc' = AfterQuery(TRUE, 0)
               /\ UNCHANGED <<filenames, i>>
          ELSE /\ filenames' = rows
               /\ i' = 0
               /\ pc' = AfterQuery(FALSE, Len(rows))
               /\ UNCHANGED log
    /\ UNCHANGED <<fsVars, cfgVars, cfVars, version, fpath, filepath, cqi, calls, op,
                   hostname, killed, attempted, created, opened, made>>

\* LoopCase gone wrong: row 0 is not skipped.
LoopCase_NoSkip(n) == IF n >= Len(filenames) THEN "end" ELSE "row"

\* The loop's test on i: past the end, the header row, or a row to create.
LoopCase(n) == IF n >= Len(filenames) THEN "end" ELSE IF n = 0 THEN "skip" ELSE "row"

\* for (i = 0; i < numEntries; i++): row 0 is skipped, every other row gets
\* its file <dumpDir>/<filenames[i]> from CreateFile.
DMVLoop ==
    /\ pc = "dmv_loop"
    /\ CASE LoopCase(i) = "end" ->
              /\ pc' = "idle"
              /\ UNCHANGED <<i, filepath, attempted, cfVars>>
         [] LoopCase(i) = "skip" ->
              /\ i' = i + 1
              /\ pc' = "dmv_loop"
              /\ UNCHANGED <<filepath, attempted, cfVars>>
         [] LoopCase(i) = "row" ->
              /\ filepath' = FormatSlash(fpath, filenames[i + 1])
              /\ attempted' = attempted \cup {<<i, filepath'>>}
              /\ EnterCreateFile(filepath', "dmv_json")
              /\ UNCHANGED i
    /\ UNCHANGED <<fsVars, cfgVars, version, fpath, filenames, cqi, calls, op,
                   hostname, killed, log, queries, created, opened, made>>

\* WantsJson gone wrong: the threshold is off by one.
WantsJson_OffByOne(v) == v > JsonVersion

\* if (version >= 16): whether the row gets its .json sibling.
WantsJson(v) == v >= JsonVersion

\* After the row's file: the .json sibling from CreateFile, or the next row.
DMVJson ==
    /\ pc = "dmv_json"
    /\ IF WantsJson(version)
       THEN /\ filepath' = FormatJson(filepath)
            /\ attempted' = attempted \cup {<<i, filepath'>>}
            /\ EnterCreateFile(filepath', "dmv_inc")
            /\ UNCHANGED i
       ELSE /\ i' = i + 1
            /\ pc' = "dmv_loop"
            /\ UNCHANGED <<filepath, attempted, cfVars>>
    /\ UNCHANGED <<fsVars, cfgVars, version, fpath, filenames, cqi, calls, op,
                   hostname, killed, log, queries, created, opened, made>>

\* i++ after the .json sibling.
DMVInc ==
    /\ pc = "dmv_inc"
    /\ i' = i + 1
    /\ pc' = "dmv_loop"
    /\ UNCHANGED <<fsVars, cfgVars, cfVars, version, fpath, filenames, filepath, cqi,
                   calls, op, hostname, killed, log, queries, attempted, created,
                   opened, made>>

\* ---------------------------------------------------- CreateDbfsFiles
\* AfterRootMkdir gone wrong: the error is ignored; "already exists" is let through.
AfterRootMkdir_IgnoresError(ok, root) == "cq_mkdir"
AfterRootMkdir_ToleratesExisting(ok, root) ==
    IF ok \/ Norm(root) \in dirs THEN "cq_mkdir" ELSE "cdf_kill"

\* if (error == 0) the custom queries and the DMV files; else KillSelf().
AfterRootMkdir(ok, root) == IF ok THEN "cq_mkdir" ELSE "cdf_kill"

\* fpath = CalculateDumpPath(servername) and its mkdir: on success the custom
\* query folder and the DMV files follow; any failure is reported and
\* KillSelf called.
CreateDbfsFiles ==
    \E servername \in KnownServers, v \in Versions :
        LET root == CalculateDumpPath(servername)
        IN  \E ok \in {b \in BOOLEAN : b => MkdirPossible(root)} :
               /\ IF ok
                  THEN /\ Begin("CreateDbfsFiles", {})
                       /\ dirs' = dirs \cup {Norm(root)}
                       /\ made' = {Norm(root)}
                       /\ pc' = AfterRootMkdir(TRUE, root)
                  ELSE /\ Begin("CreateDbfsFiles",
                                {"mkdir failed for fpath", "error creating the folders"})
                       /\ made' = {}
                       /\ pc' = AfterRootMkdir(FALSE, root)
                       /\ UNCHANGED dirs
               /\ version' = v
               /\ fpath' = root
               /\ filenames' = <<>>
               /\ i' = 0
               /\ filepath' = <<>>
               /\ cqi' = 0
               /\ hostname' = "unset"
               /\ ResetCF
               /\ UNCHANGED <<fs, xattrs, cfgVars, created>>

Next ==
    \/ GetServerDetails
    \/ CreateFile
    \/ CF_fopen
    \/ CF_setxattr
    \/ KillSelf
    \/ CreateDbfsFiles
    \/ CreateCustomQueriesDir
    \/ CreateCustomQueriesOutputFiles
    \/ CreateDMVFiles
    \/ DMVLoop
    \/ DMVJson
    \/ DMVInc

Spec == Init /\ [][Next]_vars

\* ------------------------------------------------------------ claims
InCreateFile == pc \in {"cf_fopen", "cf_setxattr", "cf_kill_open", "cf_kill_tag"}

\* The operation in progress has returned to the startup code.
Done == pc = "idle" /\ op # "none"

Materializing == op = "CreateDbfsFiles"

CustomFolder == Norm(fpath \o LINUX_PATH_DELIM \o CUSTOM_QUERY_FOLDER_NAME)

\* The files this operation created right in the server root, and in the
\* custom query folder.
DMVOpened == {p \in opened : Parent(p) = Norm(fpath)}
CustomOpened == {p \in opened : Parent(p) = CustomFolder}

RootFailed == Materializing /\ "mkdir failed for fpath" \in log
CustomFailed == Materializing /\ "mkdir failed for customQueryFolderPath" \in log
QueryFailed == Materializing /\ "Failed to query DMV list" \in log
QuerySucceeded == Materializing /\ queries = 1 /\ ~QueryFailed

\* Every row after the header was given to CreateFile.
AllRowsAttempted == \A k \in 1..(Len(filenames) - 1) : \E a \in attempted : a[1] = k

\* The mount-relative path whose dump path resolves to p.
MountPath(p) == SubSeq(p, Len(Norm(dumpPath)) + 1, Len(p))

\* C1: when the mkdir of the server root fails, KillSelf is called, and the
\* operation makes no directory (so no custom query folder), creates no file
\* (no custom query output file, no DMV file), gives no row to CreateFile and
\* never issues the catalog query.
C1_RootFailureEscalates ==
    RootFailed =>
        /\ pc \in {"cdf_kill", "terminated", "idle"}
        /\ pc = "cdf_kill" \/ killed
        /\ made = {}
        /\ opened = {}
        /\ attempted = {}
        /\ queries = 0

C1_Witness == RootFailed /\ killed /\ pc = "terminated"

\* C2 (as claimed): once KillSelf has been called in an operation, the
\* process has ended: the operation takes no further step and does not return.
C2_KillSelfNeverReturns == killed => pc = "terminated"

\* A failed fopen of a DMV file (the row's file or its .json sibling).
DMVFopenFailed == Materializing /\ cfRet \in {"dmv_json", "dmv_inc"} /\ cfOpen = "failed"

Degenerate == QuerySucceeded /\ Len(filenames) <= 1

AllFileOpsOk ==
    log \cap {"Error creating file", "Error setting extended attributes"} = {}

\* The DMV files rows [header, n1..nk] call for at version v.
ExpectedDMV(rows, v) ==
    LET plain == {Norm(FormatSlash(fpath, rows[k])) : k \in 2..Len(rows)}
    IN  plain \cup (IF v >= JsonVersion
                    THEN {Norm(FormatJson(FormatSlash(fpath, rows[k]))) : k \in 2..Len(rows)}
                    ELSE {})

C6_CreatedFilesTagged ==
    (~InCreateFile /\ pc \notin {"terminated", "aborted"}) =>
        /\ \A p \in created : IsDbfsFile(MountPath(p), FALSE)
        /\ \A p \in DOMAIN fs \ created : ~IsDbfsFile(MountPath(p), FALSE)
        /\ \A p \in DOMAIN fs : ~IsDbfsFile(MountPath(p), TRUE)

\* C7: when the mkdir of the custom query folder fails, the failure is logged,
\* no custom query output file is created, KillSelf is not called for it, and
\* CreateDMVFiles runs next: the catalog query is the step that follows.
C7_CustomFailureSkipped ==
    CustomFailed =>
        /\ CustomFolder \notin made
        /\ CustomOpened = {}
        /\ cqi = 0
        /\ pc = "dmv_query" \/ queries = 1
        /\ queries = 0 => ~killed

C7_Witness == CustomFailed /\ queries = 1 /\ Done /\ DMVOpened # {}

\* C8 (as claimed): when the server root already exists, its mkdir failing
\* with "already exists" does not lead to KillSelf.
C8_ExistingRootTolerated ==
    (RootFailed /\ Norm(fpath) \in dirs) => (pc # "cdf_kill" /\ ~killed)

\* C8 (amended): KillSelf is called whenever the mkdir of the server root
\* fails, "already exists" included, and is not called for a mkdir that
\* succeeded.
C8_AnyRootFailureEscalates ==
    Materializing =>
        IF "mkdir failed for fpath" \in log
        THEN pc = "cdf_kill" \/ killed
        ELSE pc # "cdf_kill" /\ Norm(fpath) \in made

C8_Witness == RootFailed /\ Norm(fpath) \in dirs /\ killed

\* C9: the catalog query is issued at most once in an operation; when it
\* fails, the failure is logged, the operation returns at once (KillSelf is
\* not called for it) and no DMV file is created.
C9_QueryFailureNotRetried ==
    /\ queries <= 1
    /\ QueryFailed =>
          /\ queries = 1
          /\ pc = "idle"
          /\ attempted = {}
          /\ DMVOpened = {}

C9_Witness == QueryFailed /\ Done /\ ~killed

\* The last CreateFile returned with its fopen and setxattr having succeeded.
CreateFileOk == ~InCreateFile /\ cfOpen = "ok" /\ cfTag = "ok"

\* The path was, on entry, as a successful CreateFile leaves it.
AsCreatedAtEntry(p) ==
    p \in DOMAIN fsAtEntry[1] /\ fsAtEntry[1][p] = 0 /\ p \in fsAtEntry[2]

\* C10: a CreateFile whose calls succeed leaves the file existing, empty and
\* tagged, whatever was at the path before, and changes nothing else; on a
\* path a CreateFile already left so, it changes nothing at all and no
\* failure is reported, so two invocations leave what one leaves.
C10_CreateFileIdempotent ==
    CreateFileOk =>
        LET p == Norm(cfPath)
        IN  /\ p \in DOMAIN fs /\ fs[p] = 0 /\ p \in xattrs
            /\ fs = [q \in DOMAIN fsAtEntry[1] \cup {p} |->
                        IF q = p THEN 0 ELSE fsAtEntry[1][q]]
            /\ xattrs = fsAtEntry[2] \cup {p}
            /\ AsCreatedAtEntry(p) => <<fs, xattrs>> = fsAtEntry
            /\ pc \notin KillPoints \cup {"terminated"}

C10_Witness == CreateFileOk /\ AsCreatedAtEntry(Norm(cfPath)) /\ AllFileOpsOk

====
